---- MODULE Spec2Model ----
(***************************************************************************)
(* create_rhcos_ami.py: the RHCOSRelease pipeline                          *)
(*   download -> unpack -> upload -> import_snapshot -> register_image     *)
(* driven by create_ami, against the local scratch directory, the S3       *)
(* bucket and the EC2 snapshot / image registry.                           *)
(*                                                                         *)
(* A call is executed as a stack of pending steps (todo): one step per     *)
(* external call of the code together with the local tests that lead to    *)
(* it.  The import task runs server-side and changes status between the    *)
(* steps of the caller.                                                    *)
(***************************************************************************)
EXTENDS Integers, Sequences, FiniteSets, TLC

\* ------------------------------------------------------------------ bounds
MaxRuns == 2
MaxLag == 1
MaxPolls == 2
MaxLen == 6

\* ------------------------------------------------------- program constants
max_time == 10
PollInterval == 10

\* ------------------------------------------------------------------ values
Versions == {"4.8.2", "4.8.3"}
Releases == {"4.8.2"}
None == "None"
\* the processes that may run the command; Main is the one of the sequential runs
Procs == {"p1", "p2"}
Main == "p1"
Entries == {"create_ami", "import_snapshot", "register_image"}
FileStates == {"absent", "ok", "bad"}
ExactKey == ""
OtherKey == ".bak"

VARIABLES
    download_path,   \* version -> state of /tmp/<filename_gzip>
    unpack_path,     \* version -> state of /tmp/<filename>
    bucket,          \* objects of the S3 bucket: [version, suffix, body]
    tasks,           \* import snapshot tasks, indexed by ImportTaskId
    snapshots,       \* EC2 snapshots: [id, rhcos_version, task]
    images,          \* EC2 images: [id, name, snapshot, public]
    state,           \* proc -> "idle" | "running" | "returned" | "raised"
    entry,           \* proc -> the method called
    version,         \* proc -> self.version
    public,          \* proc -> the public argument
    todo,            \* proc -> the pending steps, innermost call first
    ret,             \* proc -> the last return value, or the error raised
    snapshot_id,     \* proc -> local snapshot_id
    image_id,        \* proc -> local image_id
    import_task_id,  \* proc -> local import_task_id
    timeout,         \* proc -> local timeout
    clock,           \* proc -> time.time(), in seconds since the call began
    trace,           \* proc -> the external calls of the current call, in order
    pre,             \* proc -> the external state when the current call began
    last,            \* proc -> the previous call of this process
    runs,            \* number of calls started
    arg,             \* the version string RHCOSRelease(...) is constructed with
    self,            \* the fields of the RHCOSRelease object constructed from arg
    command,         \* proc -> the create command: "none" | "running" | "printed"
    ocp_versions,    \* proc -> the OCP_VERSIONS arguments not yet looked up
    pending,         \* proc -> the releases of the current OCP version not yet processed
    image_ids        \* proc -> the list image_ids of create

files == <<download_path, unpack_path>>
cloud == <<bucket, tasks, snapshots, images>>
ctl == <<state, todo, ret>>
locals == <<snapshot_id, image_id, import_task_id, timeout>>
made == <<arg, self>>
batch == <<command, ocp_versions, pending, image_ids>>
call == <<entry, version, public, pre, last, runs, made, batch>>
vars == <<download_path, unpack_path, bucket, tasks, snapshots, images,
          state, entry, version, public, todo, ret, snapshot_id, image_id,
          import_task_id, timeout, clock, trace, pre, last, runs, arg, self,
          command, ocp_versions, pending, image_ids>>

\* ----------------------------------------------------------------- helpers
External ==
    [download_path |-> download_path, unpack_path |-> unpack_path,
     bucket |-> bucket, snapshots |-> snapshots, images |-> images]

NoCall == [entry |-> None, version |-> None, state |-> "idle", ret |-> None]

\* no RHCOSRelease object constructed
NoObject == [version |-> None]

\* list_objects_v2(Bucket=s3_bucket, Prefix=self.filename)['KeyCount']:
\* every key that starts with the filename counts.
KeyCount(v) == Cardinality({o \in bucket : o.version = v})

\* the body stored under exactly the key self.filename
ObjectAt(v) ==
    IF \E o \in bucket : o.version = v /\ o.suffix = ExactKey
    THEN (CHOOSE o \in bucket : o.version = v /\ o.suffix = ExactKey).body
    ELSE "absent"

\* describe_snapshots(Filters=[tag:rhcos_version = self.version])['Snapshots']
existing_snapshot(v) == {s.id : s \in {t \in snapshots : t.rhcos_version = v}}

\* the image lookup without the name filter
existing_image_any(v) == {i.id : i \in images}
\* describe_images(Filters=[name = rhcos-<self.version>])['Images']
existing_image(v) == {i.id : i \in {j \in images : j.name = v}}

\* ids the provider hands out, in order
SnapshotIds == <<"snap-1", "snap-2", "snap-3", "snap-4", "snap-5", "snap-6">>
ImageIds == <<"ami-1", "ami-2", "ami-3", "ami-4", "ami-5", "ami-6">>
NewSnapshotId == SnapshotIds[Cardinality(snapshots) + 1]
NewImageId == ImageIds[Cardinality(images) + 1]

\* the stages with register_image before import_snapshot
CreateAmiStages_swapped ==
    <<"download", "unpack", "upload", "register_image", "import_snapshot">>
\* the body of create_ami after the existence check
CreateAmiStages ==
    <<"download", "unpack", "upload", "import_snapshot", "register_image">>

At(p, label) == state[p] = "running" /\ Head(todo[p]) = label

Log(p, ev) == trace' = [trace EXCEPT ![p] = Append(@, ev)]

Return(p, val) ==
    /\ todo' = [todo EXCEPT ![p] = Tail(@)]
    /\ ret' = [ret EXCEPT ![p] = val]
    /\ state' = [state EXCEPT ![p] = IF Len(todo[p]) = 1 THEN "returned" ELSE "running"]

Raise(p, err) ==
    /\ todo' = [todo EXCEPT ![p] = <<>>]
    /\ ret' = [ret EXCEPT ![p] = err]
    /\ state' = [state EXCEPT ![p] = "raised"]

Goto(p, labels) ==
    /\ todo' = [todo EXCEPT ![p] = labels \o Tail(@)]
    /\ UNCHANGED <<ret, state>>

\* -------------------------------------------------------------------- Init
\* What is there for release v before the first call: scratch files and objects
\* of earlier runs, a snapshot (tagged or not), an image registered from it.
InitRelease(v) ==
    /\ \E g \in FileStates, u \in FileStates :
          /\ download_path = [w \in Versions |-> IF w = v THEN g ELSE "absent"]
          /\ unpack_path = [w \in Versions |-> IF w = v THEN u ELSE "absent"]
    /\ \E keys \in {{}, {ExactKey}, {OtherKey}} :
          bucket = {[version |-> v, suffix |-> k, body |-> "ok"] : k \in keys}
    /\ \E own \in {"none", "untagged", "tagged", "image", "public"}, other \in BOOLEAN :
          LET w == CHOOSE x \in Versions : x # v
              tag == IF own = "untagged" THEN None ELSE v
          IN  /\ snapshots =
                    (IF own = "none" THEN {}
                     ELSE {[id |-> SnapshotIds[1], rhcos_version |-> tag, task |-> 0]})
                    \cup (IF other
                          THEN {[id |-> "snap-0", rhcos_version |-> w, task |-> 0]}
                          ELSE {})
              /\ images =
                    (IF own \in {"image", "public"}
                     THEN {[id |-> ImageIds[1], name |-> v, snapshot |-> SnapshotIds[1],
                            public |-> (own = "public")]}
                     ELSE {})
                    \cup (IF other
                          THEN {[id |-> "ami-0", name |-> w, snapshot |-> "snap-0",
                                 public |-> FALSE]}
                          ELSE {})

\* no import task, no call made yet
InitIdle ==
    /\ tasks = <<>>
    /\ state = [p \in Procs |-> "idle"]
    /\ entry = [p \in Procs |-> None]
    /\ version = [p \in Procs |-> None]
    /\ public = [p \in Procs |-> FALSE]
    /\ todo = [p \in Procs |-> <<>>]
    /\ ret = [p \in Procs |-> None]
    /\ snapshot_id = [p \in Procs |-> None]
    /\ image_id = [p \in Procs |-> None]
    /\ import_task_id = [p \in Procs |-> 0]
    /\ timeout = [p \in Procs |-> 0]
    /\ clock = [p \in Procs |-> 0]
    /\ trace = [p \in Procs |-> <<>>]
    /\ pre = [p \in Procs |-> External]
    /\ last = [p \in Procs |-> NoCall]
    /\ runs = 0
    /\ command = [p \in Procs |-> "none"]
    /\ ocp_versions = [p \in Procs |-> <<>>]
    /\ pending = [p \in Procs |-> <<>>]
    /\ image_ids = [p \in Procs |-> <<>>]

Init ==
    /\ \E v \in Releases : InitRelease(v)
    /\ InitIdle
    /\ arg = <<>>
    /\ self = NoObject

\* ----------------------------------------------------------------- actions
\* A caller invokes one of the methods of RHCOSRelease(v).
Begin(p, e, v, pub) ==
    /\ entry' = [entry EXCEPT ![p] = e]
    /\ version' = [version EXCEPT ![p] = v]
    /\ public' = [public EXCEPT ![p] = pub]
    /\ todo' = [todo EXCEPT ![p] = <<e>>]
    /\ state' = [state EXCEPT ![p] = "running"]
    /\ ret' = [ret EXCEPT ![p] = None]
    /\ last' = [last EXCEPT ![p] =
                  [entry |-> entry[p], version |-> version[p],
                   state |-> state[p], ret |-> ret[p]]]
    /\ pre' = [pre EXCEPT ![p] = External]
    /\ trace' = [trace EXCEPT ![p] = <<>>]
    /\ clock' = [clock EXCEPT ![p] = 0]
    /\ timeout' = [timeout EXCEPT ![p] = 0]
    /\ snapshot_id' = [snapshot_id EXCEPT ![p] = None]
    /\ image_id' = [image_id EXCEPT ![p] = None]
    /\ import_task_id' = [import_task_id EXCEPT ![p] = 0]

Start(p) ==
    /\ state[p] # "running"
    /\ runs < MaxRuns
    /\ \E e \in Entries, v \in Releases, pub \in BOOLEAN :
          /\ e = "import_snapshot" => ~pub
          /\ Begin(p, e, v, pub)
    /\ runs' = runs + 1
    /\ UNCHANGED <<files, cloud, made, batch>>

\* create_ami without the early return
create_ami_always(p) ==
    /\ At(p, "create_ami")
    /\ Log(p, "describe_images")
    /\ Goto(p, CreateAmiStages)
    /\ UNCHANGED <<files, cloud, locals, clock, call>>

\* create_ami: image_id = self.existing_image(); return it, or run the stages.
create_ami(p) ==
    /\ At(p, "create_ami")
    /\ Log(p, "describe_images")
    /\ IF existing_image(version[p]) # {}
       THEN \E i \in existing_image(version[p]) : Return(p, i)
       ELSE Goto(p, CreateAmiStages)
    /\ UNCHANGED <<files, cloud, locals, clock, call>>

\* download: skip when download_path exists, else requests.get and write r.content.
\* requests.get raises (no file), or answers with the artifact, or answers with
\* an error page, which is written as it is (the status is not looked at).
download(p) ==
    /\ At(p, "download")
    /\ IF download_path[version[p]] # "absent"
       THEN /\ Return(p, None)
            /\ UNCHANGED <<download_path, trace>>
       ELSE /\ Log(p, "requests.get")
            /\ \/ /\ Raise(p, "ConnectionError")
                  /\ UNCHANGED download_path
               \/ /\ \E body \in {"ok", "bad"} :
                        download_path' = [download_path EXCEPT ![version[p]] = body]
                  /\ Return(p, None)
    /\ UNCHANGED <<unpack_path, cloud, locals, clock, call>>

\* unpack, up to the call of download
unpack(p) ==
    /\ At(p, "unpack")
    /\ IF unpack_path[version[p]] # "absent"
       THEN Return(p, None)
       ELSE IF download_path[version[p]] = "absent"
            THEN Goto(p, <<"download", "gunzip">>)
            ELSE Goto(p, <<"gunzip">>)
    /\ UNCHANGED <<files, cloud, locals, clock, trace, call>>

\* unpack: gzip.open(download_path), open(unpack_path, 'wb'), copyfileobj.
\* The output file is created before the first byte is decompressed.
gunzip(p) ==
    /\ At(p, "gunzip")
    /\ Log(p, "gzip.open")
    /\ IF download_path[version[p]] = "absent"
       THEN /\ Raise(p, "FileNotFoundError")
            /\ UNCHANGED unpack_path
       ELSE IF download_path[version[p]] = "ok"
            THEN /\ unpack_path' = [unpack_path EXCEPT ![version[p]] = "ok"]
                 /\ Return(p, None)
            ELSE /\ unpack_path' = [unpack_path EXCEPT ![version[p]] = "bad"]
                 /\ Raise(p, "BadGzipFile")
    /\ UNCHANGED <<download_path, cloud, locals, clock, call>>

\* upload, up to the call of unpack
upload(p) ==
    /\ At(p, "upload")
    /\ Log(p, "list_objects_v2")
    /\ IF KeyCount(version[p]) > 0
       THEN Return(p, None)
       ELSE IF unpack_path[version[p]] = "absent"
            THEN Goto(p, <<"unpack", "upload_fileobj">>)
            ELSE Goto(p, <<"upload_fileobj">>)
    /\ UNCHANGED <<files, cloud, locals, clock, call>>

\* upload: s3.upload_fileobj(f, s3_bucket, self.filename)
upload_fileobj(p) ==
    /\ At(p, "upload_fileobj")
    /\ Log(p, "upload_fileobj")
    /\ IF unpack_path[version[p]] = "absent"
       THEN /\ Raise(p, "FileNotFoundError")
            /\ UNCHANGED bucket
       ELSE \/ /\ Raise(p, "S3UploadFailedError")
               /\ UNCHANGED bucket
            \/ /\ bucket' =
                     {o \in bucket : ~(o.version = version[p] /\ o.suffix = ExactKey)}
                     \cup {[version |-> version[p], suffix |-> ExactKey,
                            body |-> unpack_path[version[p]]]}
               /\ Return(p, None)
    /\ UNCHANGED <<files, tasks, snapshots, images, locals, clock, call>>

\* import_snapshot without the early return
import_snapshot_always(p) ==
    /\ At(p, "import_snapshot")
    /\ Log(p, "describe_snapshots")
    /\ Goto(p, <<"import_source">>)
    /\ UNCHANGED <<files, cloud, locals, clock, call>>

\* import_snapshot: snapshot_id = self.existing_snapshot(); return it if there is one.
import_snapshot(p) ==
    /\ At(p, "import_snapshot")
    /\ Log(p, "describe_snapshots")
    /\ IF existing_snapshot(version[p]) # {}
       THEN \E s \in existing_snapshot(version[p]) : Return(p, s)
       ELSE Goto(p, <<"import_source">>)
    /\ UNCHANGED <<files, cloud, locals, clock, call>>

\* import_snapshot: upload unless some key with the filename as prefix is listed.
import_source(p) ==
    /\ At(p, "import_source")
    /\ Log(p, "list_objects_v2")
    /\ IF ~(KeyCount(version[p]) > 0)
       THEN Goto(p, <<"upload", "import_start">>)
       ELSE Goto(p, <<"import_start">>)
    /\ UNCHANGED <<files, cloud, locals, clock, call>>

\* import_snapshot holding back while an import task of the release is under way
import_start_locked(p) ==
    /\ At(p, "import_start")
    /\ ~\E j \in DOMAIN tasks : tasks[j].version = version[p] /\ tasks[j].status = "active"
    /\ Log(p, "import_snapshot")
    /\ \/ /\ Raise(p, "ClientError")
          /\ UNCHANGED <<tasks, import_task_id, timeout>>
       \/ /\ tasks' = Append(tasks, [version |-> version[p], status |-> "active",
                                     snapshot |-> None, source |-> ObjectAt(version[p])])
          /\ import_task_id' = [import_task_id EXCEPT ![p] = Len(tasks) + 1]
          /\ timeout' = [timeout EXCEPT ![p] = clock[p] + 60 * max_time]
          /\ Goto(p, <<"import_poll">>)
    /\ UNCHANGED <<files, bucket, snapshots, images, snapshot_id, image_id, clock, call>>

\* import_snapshot taking up the latest import task of the release, if there is one
import_start_resume(p) ==
    /\ At(p, "import_start")
    /\ LET mine == {j \in DOMAIN tasks : tasks[j].version = version[p]}
       IN  IF mine # {}
           THEN /\ import_task_id' =
                      [import_task_id EXCEPT ![p] = CHOOSE j \in mine : \A k \in mine : k <= j]
                /\ timeout' = [timeout EXCEPT ![p] = clock[p] + 60 * max_time]
                /\ Goto(p, <<"import_poll">>)
                /\ UNCHANGED <<tasks, trace>>
           ELSE /\ Log(p, "import_snapshot")
                /\ tasks' = Append(tasks, [version |-> version[p], status |-> "active",
                                           snapshot |-> None, source |-> ObjectAt(version[p])])
                /\ import_task_id' = [import_task_id EXCEPT ![p] = Len(tasks) + 1]
                /\ timeout' = [timeout EXCEPT ![p] = clock[p] + 60 * max_time]
                /\ Goto(p, <<"import_poll">>)
    /\ UNCHANGED <<files, bucket, snapshots, images, snapshot_id, image_id, clock, call>>

\* import_snapshot: ec2.import_snapshot(... S3Key = self.filename), then
\* timeout = time.time() + 60 * max_time.  The task records what is stored under
\* exactly that key when it is submitted.
import_start(p) ==
    /\ At(p, "import_start")
    /\ Log(p, "import_snapshot")
    /\ \/ /\ Raise(p, "ClientError")
          /\ UNCHANGED <<tasks, import_task_id, timeout>>
       \/ /\ tasks' = Append(tasks, [version |-> version[p], status |-> "active",
                                     snapshot |-> None, source |-> ObjectAt(version[p])])
          /\ import_task_id' = [import_task_id EXCEPT ![p] = Len(tasks) + 1]
          /\ timeout' = [timeout EXCEPT ![p] = clock[p] + 60 * max_time]
          /\ Goto(p, <<"import_poll">>)
    /\ UNCHANGED <<files, bucket, snapshots, images, snapshot_id, image_id, clock, call>>

\* The time one status query may take: the queries of one call take MaxLag seconds
\* at most altogether.  clock advances by whole poll intervals and by these
\* latencies, so clock % PollInterval is the latency accumulated so far.
Latencies(p) == {d \in 0..MaxLag : (clock[p] % PollInterval) + d <= MaxLag}

\* the timeout test one poll interval early
TimedOut_early(now, limit) == now >= limit - PollInterval
\* import_snapshot: the timeout test, time.time() > timeout
TimedOut(now, limit) == now > limit

\* one iteration of the poll loop with the timeout test before the completed test
Poll_deadline_first(p, lats, capped) ==
    /\ At(p, "import_poll")
    /\ Log(p, "describe_import_snapshot_tasks")
    /\ \E d \in lats :
          LET now == clock[p] + d
              task == tasks[import_task_id[p]]
          IN  IF TimedOut(now, timeout[p])
              THEN /\ Raise(p, "RuntimeError")
                   /\ clock' = [clock EXCEPT ![p] = now]
                   /\ UNCHANGED snapshot_id
              ELSE IF task.status = "completed"
                   THEN /\ snapshot_id' = [snapshot_id EXCEPT ![p] = task.snapshot]
                        /\ clock' = [clock EXCEPT ![p] = now]
                        /\ Goto(p, <<"import_tag">>)
                   ELSE /\ capped => (clock[p] \div PollInterval) + 1 < MaxPolls
                        /\ clock' = [clock EXCEPT ![p] = now + PollInterval]
                        /\ Goto(p, <<"import_poll">>)
                        /\ UNCHANGED snapshot_id
    /\ UNCHANGED <<files, cloud, image_id, import_task_id, timeout, call>>

\* import_snapshot: one iteration of the poll loop: describe_import_snapshot_tasks,
\* the completed test, the timeout test, time.sleep(10).  lats: the time the status
\* query may take; capped: follow the loop for at most MaxPolls queries.
Poll(p, lats, capped) ==
    /\ At(p, "import_poll")
    /\ Log(p, "describe_import_snapshot_tasks")
    /\ \E d \in lats :
          LET now == clock[p] + d
              task == tasks[import_task_id[p]]
          IN  IF task.status = "completed"
              THEN /\ snapshot_id' = [snapshot_id EXCEPT ![p] = task.snapshot]
                   /\ clock' = [clock EXCEPT ![p] = now]
                   /\ Goto(p, <<"import_tag">>)
              ELSE IF TimedOut(now, timeout[p])
                   THEN /\ Raise(p, "RuntimeError")
                        /\ clock' = [clock EXCEPT ![p] = now]
                        /\ UNCHANGED snapshot_id
                   ELSE /\ capped => (clock[p] \div PollInterval) + 1 < MaxPolls
                        /\ clock' = [clock EXCEPT ![p] = now + PollInterval]
                        /\ Goto(p, <<"import_poll">>)
                        /\ UNCHANGED snapshot_id
    /\ UNCHANGED <<files, cloud, image_id, import_task_id, timeout, call>>

\* the poll loop, complete
import_poll(p) == Poll(p, Latencies(p), FALSE)

\* the poll loop, complete, with status queries that take no time
import_loop(p) == Poll(p, {0}, FALSE)

\* the poll loop while the task is watched for MaxPolls status queries
import_wait(p) == Poll(p, {0}, TRUE)

\* import_snapshot returning the snapshot without tagging it
import_tag_skipped(p) ==
    /\ At(p, "import_tag")
    /\ Log(p, "create_tags")
    /\ Return(p, snapshot_id[p])
    /\ UNCHANGED <<files, cloud, locals, clock, call>>

\* import_snapshot: ec2.create_tags(Resources=[snapshot_id], rhcos_version = version)
import_tag(p) ==
    /\ At(p, "import_tag")
    /\ Log(p, "create_tags")
    /\ \/ /\ Raise(p, "ClientError")
          /\ UNCHANGED snapshots
       \/ /\ snapshots' = {IF s.id = snapshot_id[p]
                           THEN [s EXCEPT !.rhcos_version = version[p]]
                           ELSE s : s \in snapshots}
          /\ Return(p, snapshot_id[p])
    /\ UNCHANGED <<files, bucket, tasks, images, locals, clock, call>>

\* register_image applying the public flag to the image it found
register_image_reapply(p) ==
    /\ At(p, "register_image")
    /\ Log(p, "describe_images")
    /\ IF existing_image(version[p]) # {}
       THEN \E i \in existing_image(version[p]) :
               /\ image_id' = [image_id EXCEPT ![p] = i]
               /\ IF public[p]
                  THEN /\ Goto(p, <<"make_public">>)
                  ELSE /\ Return(p, i)
       ELSE /\ Goto(p, <<"register_snapshot">>)
            /\ UNCHANGED image_id
    /\ UNCHANGED <<files, cloud, snapshot_id, import_task_id, timeout, clock, call>>

\* register_image: image_id = self.existing_image(); return it if there is one.
register_image(p) ==
    /\ At(p, "register_image")
    /\ Log(p, "describe_images")
    /\ IF existing_image(version[p]) # {}
       THEN \E i \in existing_image(version[p]) : Return(p, i)
       ELSE Goto(p, <<"register_snapshot">>)
    /\ UNCHANGED <<files, cloud, locals, clock, call>>

\* register_image: snapshot_id = self.existing_snapshot(), None when there is none
register_snapshot(p) ==
    /\ At(p, "register_snapshot")
    /\ Log(p, "describe_snapshots")
    /\ IF existing_snapshot(version[p]) # {}
       THEN \E s \in existing_snapshot(version[p]) :
               snapshot_id' = [snapshot_id EXCEPT ![p] = s]
       ELSE snapshot_id' = [snapshot_id EXCEPT ![p] = None]
    /\ Goto(p, <<"register_call">>)
    /\ UNCHANGED <<files, cloud, image_id, import_task_id, timeout, clock, call>>

\* register_image: what follows a successful ec2.register_image
AfterRegister(pub) == IF pub THEN <<"make_public">> ELSE <<>>

\* register_image: ec2.register_image(Name = rhcos-<version>, SnapshotId = snapshot_id).
\* A SnapshotId of None is rejected when the request is built, and EC2 rejects a
\* name that another image of the account has taken meanwhile.
register_call(p) ==
    /\ At(p, "register_call")
    /\ Log(p, "register_image")
    /\ IF snapshot_id[p] = None
       THEN /\ Raise(p, "ParamValidationError")
            /\ UNCHANGED <<images, image_id>>
       ELSE \/ /\ Raise(p, "ClientError")
               /\ UNCHANGED <<images, image_id>>
            \/ /\ existing_image(version[p]) = {}
               /\ images' = images \cup
                     {[id |-> NewImageId, name |-> version[p],
                       snapshot |-> snapshot_id[p], public |-> FALSE]}
               /\ image_id' = [image_id EXCEPT ![p] = NewImageId]
               /\ IF AfterRegister(public[p]) = <<>>
                  THEN Return(p, NewImageId)
                  ELSE Goto(p, AfterRegister(public[p]))
    /\ UNCHANGED <<files, bucket, tasks, snapshots, snapshot_id, import_task_id,
                   timeout, clock, call>>

\* register_image: ec2.modify_image_attribute(LaunchPermission Add Group all),
\* then return image_id.  An error of the call is not caught.
make_public(p) ==
    /\ At(p, "make_public")
    /\ Log(p, "modify_image_attribute")
    /\ \/ /\ Raise(p, "ClientError")
          /\ UNCHANGED images
       \/ /\ images' = {IF i.id = image_id[p] THEN [i EXCEPT !.public = TRUE] ELSE i
                        : i \in images}
          /\ Return(p, image_id[p])
    /\ UNCHANGED <<files, bucket, tasks, snapshots, locals, clock, call>>

\* The provider finishes import task j: a snapshot appears, without tags.
\* Only a task whose source object is a complete disk image can complete.
TaskCompletes(j) ==
    /\ tasks[j].status = "active"
    /\ tasks[j].source = "ok"
    /\ tasks' = [tasks EXCEPT ![j] = [@ EXCEPT !.status = "completed",
                                                !.snapshot = NewSnapshotId]]
    /\ snapshots' = snapshots \cup
          {[id |-> NewSnapshotId, rhcos_version |-> None, task |-> j]}
    /\ UNCHANGED <<files, bucket, images, ctl, locals, clock, trace, call>>

\* The provider gives up import task j (status deleted).
TaskFails(j) ==
    /\ tasks[j].status = "active"
    /\ tasks' = [tasks EXCEPT ![j] = [@ EXCEPT !.status = "deleted"]]
    /\ UNCHANGED <<files, bucket, snapshots, images, ctl, locals, clock, trace, call>>

Provider == \E j \in DOMAIN tasks : TaskCompletes(j) \/ TaskFails(j)

Pipeline(p) ==
    \/ Start(p)
    \/ create_ami(p)
    \/ download(p)
    \/ unpack(p)
    \/ gunzip(p)
    \/ upload(p)
    \/ upload_fileobj(p)
    \/ import_snapshot(p)
    \/ import_source(p)
    \/ import_start(p)
    \/ import_tag(p)
    \/ register_image(p)
    \/ register_snapshot(p)
    \/ register_call(p)
    \/ make_public(p)

\* The pipeline from every external state, import tasks watched for MaxPolls queries.
Next == Pipeline(Main) \/ import_wait(Main) \/ Provider

Spec == Init /\ [][Next]_vars

\* The pipeline with the complete poll loop, from the states in which nothing is
\* imported or registered yet.
InitPoll ==
    /\ Init
    /\ snapshots = {}
    /\ images = {}
    /\ \A v \in Versions : download_path[v] = "absent" /\ unpack_path[v] = "absent"
    /\ \A o \in bucket : o.suffix = ExactKey

NextPoll == Pipeline(Main) \/ import_poll(Main) \/ Provider

SpecPoll == InitPoll /\ [][NextPoll]_vars

\* the steps of create_ami and of the methods it calls
Stages(p) ==
    \/ create_ami(p)
    \/ download(p)
    \/ unpack(p)
    \/ gunzip(p)
    \/ upload(p)
    \/ upload_fileobj(p)
    \/ import_snapshot(p)
    \/ import_source(p)
    \/ import_start(p)
    \/ import_tag(p)
    \/ register_image(p)
    \/ register_snapshot(p)
    \/ register_call(p)
    \/ make_public(p)

\* create_ami(v) called again and again, one call after the other, from every
\* external state, with the complete poll loop.
Rerun(p) ==
    /\ state[p] # "running"
    /\ runs < MaxRuns
    /\ \E v \in Releases, pub \in BOOLEAN : Begin(p, "create_ami", v, pub)
    /\ runs' = runs + 1
    /\ UNCHANGED <<files, cloud, made, batch>>

NextRerun == Rerun(Main) \/ Stages(Main) \/ import_loop(Main) \/ Provider

\* every external state with at most one snapshot and one image of the release;
\* broken scratch files are left by the runs themselves
InitRerun ==
    /\ Init
    /\ \A v \in Versions : download_path[v] # "bad" /\ unpack_path[v] # "bad"

SpecRerun == InitRerun /\ [][NextRerun]_vars

\* create_ami(v) run once by each of two processes at the same time, on the same
\* machine and account, import tasks watched for MaxPolls queries.
Launch(p) ==
    /\ state[p] = "idle"
    /\ \E v \in Releases, pub \in BOOLEAN : Begin(p, "create_ami", v, pub)
    /\ UNCHANGED <<files, cloud, runs, made, batch>>

NextRace ==
    \/ \E p \in Procs : Launch(p) \/ Stages(p) \/ import_wait(p)
    \/ Provider

SpecRace == InitPoll /\ [][NextRace]_vars

\* ------------------------------------------------------------------ create
\* the OCP_VERSIONS arguments, and what the index page of each may list: for
\* 4.10 no row matches (\d\.\d\.\d)/, so no release is found
OcpVersions == {"4.8", "4.10"}
Arguments == {<<"4.8">>, <<"4.8", "4.10">>, <<"4.10", "4.8">>}
Index(o) ==
    IF o = "4.8"
    THEN {<<"4.8.2", "4.8.3">>, <<"4.8.3", "4.8.2">>, <<"4.8.3">>}
    ELSE {<<>>}

\* create: image_ids = [], before the loops
create(p) ==
    /\ command[p] = "none"
    /\ state[p] = "idle"
    /\ \E args \in Arguments, pub \in BOOLEAN :
          /\ ocp_versions' = [ocp_versions EXCEPT ![p] = args]
          /\ public' = [public EXCEPT ![p] = pub]
    /\ command' = [command EXCEPT ![p] = "running"]
    /\ image_ids' = [image_ids EXCEPT ![p] = <<>>]
    /\ UNCHANGED <<files, cloud, ctl, locals, clock, trace, entry, version, pre, last,
                   runs, made, pending>>

\* create: the next OCP version; OpenShiftRelease.rhcos_releases fetches its index
\* page and makes an RHCOSRelease of every version found.  An exception of the
\* fetch leaves create.
rhcos_releases(p) ==
    /\ command[p] = "running"
    /\ state[p] = "idle"
    /\ pending[p] = <<>>
    /\ ocp_versions[p] # <<>>
    /\ ocp_versions' = [ocp_versions EXCEPT ![p] = Tail(@)]
    /\ \/ /\ state' = [state EXCEPT ![p] = "raised"]
          /\ ret' = [ret EXCEPT ![p] = "ConnectionError"]
          /\ UNCHANGED pending
       \/ /\ \E found \in Index(Head(ocp_versions[p])) :
                pending' = [pending EXCEPT ![p] = found]
          /\ UNCHANGED <<state, ret>>
    /\ UNCHANGED <<files, cloud, todo, locals, clock, trace, entry, version, public,
                   pre, last, runs, made, command, image_ids>>

\* the inner loop going on after an exception of create_ami
create_call_resilient(p) ==
    /\ command[p] = "running"
    /\ state[p] \in {"idle", "raised"}
    /\ pending[p] # <<>>
    /\ Begin(p, "create_ami", Head(pending[p]), public[p])
    /\ pending' = [pending EXCEPT ![p] = Tail(@)]
    /\ UNCHANGED <<files, cloud, runs, made, command, ocp_versions, image_ids>>

\* create: rhcos_release.create_ami(s3_bucket, public) for the next release
create_call(p) ==
    /\ command[p] = "running"
    /\ state[p] = "idle"
    /\ pending[p] # <<>>
    /\ Begin(p, "create_ami", Head(pending[p]), public[p])
    /\ pending' = [pending EXCEPT ![p] = Tail(@)]
    /\ UNCHANGED <<files, cloud, runs, made, command, ocp_versions, image_ids>>

\* create: image_ids.append((rhcos_release, image_id,))
create_append(p) ==
    /\ command[p] = "running"
    /\ state[p] = "returned"
    /\ image_ids' = [image_ids EXCEPT ![p] = Append(@, <<version[p], ret[p]>>)]
    /\ state' = [state EXCEPT ![p] = "idle"]
    /\ UNCHANGED <<files, cloud, todo, ret, locals, clock, trace, entry, version,
                   public, pre, last, runs, made, command, ocp_versions, pending>>

\* create: both loops are through, the image ids are printed
create_print(p) ==
    /\ command[p] = "running"
    /\ state[p] = "idle"
    /\ pending[p] = <<>>
    /\ ocp_versions[p] = <<>>
    /\ command' = [command EXCEPT ![p] = "printed"]
    /\ UNCHANGED <<files, cloud, ctl, locals, clock, trace, entry, version, public,
                   pre, last, runs, made, ocp_versions, pending, image_ids>>

\* The create command, from the states in which nothing is imported or registered.
NextBatch ==
    \/ create(Main)
    \/ rhcos_releases(Main)
    \/ create_call(Main)
    \/ create_append(Main)
    \/ create_print(Main)
    \/ Stages(Main)
    \/ import_poll(Main)
    \/ Provider

SpecBatch == InitPoll /\ [][NextBatch]_vars

\* ------------------------------------------------- RHCOSRelease.__init__
\* Strings are sequences of characters; the literal parts of the formatted
\* strings are kept as one piece each.
Digits == {"4", "1", "0", "3"}
Chars == Digits \cup {".", "a"}
Strings == UNION {[1..n -> Chars] : n \in 0..MaxLen}

\* one element of a pattern: the class \d, or a literal character
DigitClass == "\\d"
Fits(c, ch) == IF c = DigitClass THEN ch \in Digits ELSE ch = c

\* the second pattern without its '.' and second digit
PatY_short == <<DigitClass>>
\* r'(^\d)' and r'(^\d\.\d)'
PatX == <<DigitClass>>
PatY == <<DigitClass, ".", DigitClass>>

\* re.search(pat, s) with pat anchored by ^: a match object or None
Matches(pat, s) ==
    /\ Len(s) >= Len(pat)
    /\ \A i \in 1..Len(pat) : Fits(pat[i], s[i])
\* .group(1) of the match
Group1(pat, s) == SubSeq(s, 1, Len(pat))

base_url == "http://mirror.openshift.com/pub/openshift-v4/dependencies/rhcos"
tempdir == "/tmp"

\* the attributes __init__ assigns
Fields(s) ==
    LET x == Group1(PatX, s)
        y == Group1(PatY, s)
        f == <<"rhcos-">> \o s \o <<"-x86_64-aws.x86_64.vmdk">>
        g == <<"rhcos-">> \o s \o <<"-x86_64-aws.x86_64.vmdk.gz">>
    IN  [version |-> s, version_x |-> x, version_y |-> y,
         filename |-> f, filename_gzip |-> g,
         download_url |-> <<base_url, "/">> \o y \o <<"/">> \o s \o <<"/">> \o g,
         download_path |-> <<tempdir, "/">> \o g,
         unpack_path |-> <<tempdir, "/">> \o f]

\* RHCOSRelease(arg): re.search(...) is None when the pattern does not match, and
\* .group(1) on None raises AttributeError before the object is complete.
RHCOSRelease(p) ==
    /\ state[p] = "idle"
    /\ self = NoObject
    /\ IF ~Matches(PatX, arg) \/ ~Matches(PatY, arg)
       THEN /\ state' = [state EXCEPT ![p] = "raised"]
            /\ ret' = [ret EXCEPT ![p] = "AttributeError"]
            /\ UNCHANGED self
       ELSE /\ self' = Fields(arg)
            /\ state' = [state EXCEPT ![p] = "returned"]
            /\ UNCHANGED ret
    /\ UNCHANGED <<files, cloud, todo, locals, clock, trace, arg,
                   entry, version, public, pre, last, runs, batch>>

\* The constructor on every string of at most MaxLen characters.
InitNew ==
    /\ download_path = [v \in Versions |-> "absent"]
    /\ unpack_path = [v \in Versions |-> "absent"]
    /\ bucket = {}
    /\ snapshots = {}
    /\ images = {}
    /\ InitIdle
    /\ arg \in Strings
    /\ self = NoObject

NextNew == RHCOSRelease(Main)

SpecNew == InitNew /\ [][NextNew]_vars

\* ------------------------------------------------------------------ claims
Has(tr, ev) == \E i \in 1..Len(tr) : tr[i] = ev
Count(tr, ev) == Cardinality({i \in 1..Len(tr) : tr[i] = ev})
Lastly(tr, ev) == tr # <<>> /\ tr[Len(tr)] = ev
Ended(p) == state[p] \in {"returned", "raised"}

\* what there was for the release of the current call when the call began
PreImages(p) == {i \in pre[p].images : i.name = version[p]}
PreSnapshots(p) == {t \in pre[p].snapshots : t.rhcos_version = version[p]}
PreKeys(p) == {o \in pre[p].bucket : o.version = version[p]}
Tagged(id, v) == \E t \in snapshots : t.id = id /\ t.rhcos_version = v

\* the call has changed nothing so far: files, bucket and images are as they were
\* when it began, and so are the snapshots, but for untagged ones that import
\* tasks of earlier calls have produced meanwhile
Kept(p) ==
    /\ download_path = pre[p].download_path
    /\ unpack_path = pre[p].unpack_path
    /\ bucket = pre[p].bucket
    /\ images = pre[p].images
    /\ pre[p].snapshots \subseteq snapshots
    /\ \A t \in snapshots \ pre[p].snapshots : t.rhcos_version = None

\* create_ami directly after a create_ami of the same version that returned
Repeated(p) ==
    /\ entry[p] = "create_ami"
    /\ last[p].entry = "create_ami"
    /\ last[p].state = "returned"
    /\ last[p].version = version[p]

\* C1: a create_ami call that directly follows a create_ami call of the same
\* version which returned an image id returns the same image id, and its only
\* external call is one image lookup: nothing is registered, permitted, imported,
\* tagged, uploaded, downloaded or decompressed.
C1_Idempotent ==
    Repeated(Main) =>
        /\ state[Main] = "running" => trace[Main] = <<>>
        /\ Ended(Main) =>
              /\ state[Main] = "returned"
              /\ ret[Main] = last[Main].ret
              /\ trace[Main] = <<"describe_images">>
              /\ Kept(Main)

C1_Witness ==
    /\ Repeated(Main)
    /\ state[Main] = "returned"
    /\ ret[Main] = last[Main].ret
    /\ PreImages(Main) # {}
    /\ Len(tasks) = 1

\* C2: when an image named rhcos-V exists as create_ami(V) starts, the call makes
\* no external call but the image lookup, and leaves the scratch files, the
\* bucket, the snapshots and the images as they were.
C2_ShortCircuit ==
    (entry[Main] = "create_ami" /\ PreImages(Main) # {}) =>
        /\ \A i \in 1..Len(trace[Main]) : trace[Main][i] = "describe_images"
        /\ Len(trace[Main]) <= 1
        /\ Kept(Main)
        /\ Ended(Main) => state[Main] = "returned"

C2_Witness ==
    /\ entry[Main] = "create_ami"
    /\ PreImages(Main) # {}
    /\ state[Main] = "returned"
    /\ download_path[version[Main]] = "absent"
    /\ KeyCount(version[Main]) = 0
    /\ trace[Main] = <<"describe_images">>

\* the calls by which import_snapshot makes a snapshot
ImportCalls == {"import_snapshot", "describe_import_snapshot_tasks", "create_tags"}

\* C3: a snapshot id that import_snapshot(V) returns carries the tag
\* rhcos_version = V when it is returned; and once a snapshot tagged V exists,
\* import_snapshot(V) returns it after the tag lookup alone: no listing of the
\* bucket, no upload, no import task, no status query.
C3_TagLinkage ==
    /\ (entry[Main] = "import_snapshot" /\ state[Main] = "returned")
          => Tagged(ret[Main], version[Main])
    /\ (entry[Main] = "create_ami" /\ At(Main, "register_image"))
          => Tagged(ret[Main], version[Main])
    /\ (state[Main] # "idle" /\ PreSnapshots(Main) # {})
          => \A i \in 1..Len(trace[Main]) : trace[Main][i] \notin ImportCalls
    /\ (entry[Main] = "import_snapshot" /\ PreSnapshots(Main) # {}) =>
          /\ state[Main] = "running" => trace[Main] = <<>>
          /\ Ended(Main) =>
                /\ state[Main] = "returned"
                /\ trace[Main] = <<"describe_snapshots">>
                /\ ret[Main] \in {t.id : t \in PreSnapshots(Main)}
    /\ (entry[Main] = "import_snapshot" /\ last[Main].entry = "import_snapshot"
          /\ last[Main].state = "returned" /\ last[Main].version = version[Main]
          /\ Ended(Main))
          => ret[Main] = last[Main].ret

C3_Witness ==
    /\ entry[Main] = "import_snapshot"
    /\ last[Main].entry = "import_snapshot"
    /\ last[Main].state = "returned"
    /\ Len(tasks) = 1
    /\ tasks[1].snapshot = ret[Main]
    /\ state[Main] = "returned"
    /\ trace[Main] = <<"describe_snapshots">>

TimedOutCall(p) == state[p] = "raised" /\ ret[p] = "RuntimeError"

\* C4 as claimed: the timeout error is raised at a time t with
\* deadline <= t <= deadline + one poll interval.
C4_Claimed ==
    TimedOutCall(Main) =>
        /\ timeout[Main] <= clock[Main]
        /\ clock[Main] <= timeout[Main] + PollInterval

\* C4: the timeout error is raised by the first status query that ends after the
\* deadline: never at or before the deadline, and at most one poll interval plus
\* the time taken by the status queries after it; the loop never starts a query
\* later than one poll interval plus that time after the deadline.
C4_TimeoutBoundary ==
    /\ TimedOutCall(Main) =>
          /\ timeout[Main] < clock[Main]
          /\ clock[Main] <= timeout[Main] + PollInterval + MaxLag
          /\ Lastly(trace[Main], "describe_import_snapshot_tasks")
    /\ At(Main, "import_poll") =>
          /\ timeout[Main] = 60 * max_time
          /\ clock[Main] <= timeout[Main] + PollInterval + MaxLag
          /\ Count(trace[Main], "describe_import_snapshot_tasks") * PollInterval
                <= clock[Main]

C4_Witness ==
    /\ TimedOutCall(Main)
    /\ clock[Main] > timeout[Main] + PollInterval
    /\ tasks[import_task_id[Main]].status = "active"

\* create_ami for a release of which nothing exists yet
Fresh(p) ==
    /\ entry[p] = "create_ami"
    /\ pre[p].download_path[version[p]] = "absent"
    /\ pre[p].unpack_path[version[p]] = "absent"
    /\ PreKeys(p) = {}
    /\ PreSnapshots(p) = {}
    /\ PreImages(p) = {}

\* the place of each acting call in the pipeline (lookups have none)
Rank(ev) ==
    CASE ev = "requests.get" -> 1
      [] ev = "gzip.open" -> 2
      [] ev = "upload_fileobj" -> 3
      [] ev = "import_snapshot" -> 4
      [] ev = "describe_import_snapshot_tasks" -> 5
      [] ev = "create_tags" -> 6
      [] ev = "register_image" -> 7
      [] ev = "modify_image_attribute" -> 8
      [] OTHER -> 0

Acts(tr) == SelectSeq(tr, LAMBDA ev : Rank(ev) > 0)

InOrder(w) ==
    /\ w # <<>> => Rank(w[1]) = 1
    /\ \A i \in 1..(Len(w) - 1) :
          \/ Rank(w[i + 1]) = Rank(w[i]) + 1
          \/ Rank(w[i]) = 5 /\ Rank(w[i + 1]) = 5

\* C5: in a create_ami run that starts with no scratch file, no stored object,
\* no snapshot and no image of its release, the acting calls come in the order
\* HTTP fetch, decompress, upload, start import task, status queries, tag
\* snapshot, register image (then the launch permission); each acts on the
\* output of the stage before it; and a run that returns returns the id of the
\* image it has registered.
C5_DependencyOrder ==
    Fresh(Main) =>
        /\ InOrder(Acts(trace[Main]))
        /\ At(Main, "gunzip") => download_path[version[Main]] # "absent"
        /\ At(Main, "upload_fileobj") => unpack_path[version[Main]] # "absent"
        /\ At(Main, "import_start") => ObjectAt(version[Main]) # "absent"
        /\ At(Main, "import_tag") =>
              \E t \in snapshots : t.id = snapshot_id[Main]
        /\ At(Main, "register_call") => Tagged(snapshot_id[Main], version[Main])
        /\ state[Main] = "returned" =>
              /\ Has(trace[Main], "register_image")
              /\ ret[Main] = image_id[Main]
              /\ ret[Main] \notin {i.id : i \in pre[Main].images}
              /\ \E i \in images :
                    /\ i.id = ret[Main]
                    /\ i.name = version[Main]
                    /\ Tagged(i.snapshot, version[Main])

C5_Witness ==
    /\ Fresh(Main)
    /\ state[Main] = "returned"
    /\ Count(trace[Main], "describe_import_snapshot_tasks") = 2
    /\ Acts(trace[Main]) =
          <<"requests.get", "gzip.open", "upload_fileobj", "import_snapshot",
            "describe_import_snapshot_tasks", "describe_import_snapshot_tasks",
            "create_tags", "register_image">>

\* C6 as claimed: when create_ami(V) starts with no image rhcos-V but with a
\* snapshot tagged rhcos_version = V, the run fetches nothing, decompresses
\* nothing, uploads nothing and starts no import task.
C6_Claimed ==
    (entry[Main] = "create_ami" /\ PreImages(Main) = {} /\ PreSnapshots(Main) # {}) =>
        \A i \in 1..Len(trace[Main]) :
            trace[Main][i] \notin
                {"requests.get", "gzip.open", "upload_fileobj", "import_snapshot"}

\* C7 as claimed: within a create_ami run the HTTP fetch happens only when the
\* decompressed file is missing and no object with the filename is in the bucket
\* (the compressed file being missing too).
C7_Claimed ==
    (entry[Main] = "create_ami" /\ Lastly(trace[Main], "requests.get")) =>
        /\ pre[Main].download_path[version[Main]] = "absent"
        /\ unpack_path[version[Main]] = "absent"
        /\ KeyCount(version[Main]) = 0

\* C8 as claimed: the snapshot id that register_image passes to the registration
\* is the id of an existing snapshot tagged rhcos_version = V, never None; with
\* no image and no snapshot it imports one before it registers.
C8_Claimed ==
    Lastly(trace[Main], "register_image") =>
        /\ snapshot_id[Main] # None
        /\ Tagged(snapshot_id[Main], version[Main])

\* C9: when an image named rhcos-V exists, register_image and create_ami return
\* its id whatever the public argument is, never call the launch permission
\* operation, and leave every image as visible as it was.
C9_VisibilityIgnored ==
    (entry[Main] \in {"register_image", "create_ami"} /\ PreImages(Main) # {}) =>
        /\ ~Has(trace[Main], "modify_image_attribute")
        /\ images = pre[Main].images
        /\ Ended(Main) =>
              /\ state[Main] = "returned"
              /\ ret[Main] \in {i.id : i \in PreImages(Main)}

C9_Witness ==
    /\ entry[Main] = "register_image"
    /\ public[Main]
    /\ state[Main] = "returned"
    /\ \E i \in images : i.id = ret[Main] /\ i.name = version[Main] /\ ~i.public
    /\ PreImages(Main) # {}

\* C10 as claimed: when register_image(public = True) has registered a new image
\* and the launch permission call fails, the call still returns the new image id.
C10_Claimed ==
    (/\ Ended(Main)
     /\ image_id[Main] # None
     /\ Lastly(trace[Main], "modify_image_attribute")) =>
        /\ state[Main] = "returned"
        /\ ret[Main] = image_id[Main]

\* C11 as claimed: whenever download or unpack skips its work because the path
\* exists, the file at that path is complete; a fetch or a decompression that
\* failed in an earlier run leaves no file that a later run takes for downloaded
\* or unpacked, and no such file is uploaded.
C11_Claimed ==
    /\ (At(Main, "download") /\ download_path[version[Main]] # "absent")
          => download_path[version[Main]] = "ok"
    /\ (At(Main, "unpack") /\ unpack_path[version[Main]] # "absent")
          => unpack_path[version[Main]] = "ok"
    /\ \A o \in bucket : o.body = "ok"

\* the string begins with a digit, '.', a digit
BeginsDigitDotDigit(s) ==
    /\ Len(s) >= 3
    /\ s[1] \in Digits
    /\ s[2] = "."
    /\ s[3] \in Digits

\* C12: constructing an RHCOSRelease from a version string that does not begin
\* with digit '.' digit ends with an error and leaves no object, for every such
\* string, 'abc' and '4' among them.
C12_MalformedRejected ==
    /\ state[Main] = "raised" => self = NoObject /\ ret[Main] = "AttributeError"
    /\ (Ended(Main) /\ ~BeginsDigitDotDigit(arg)) => state[Main] = "raised"

C12_Witness ==
    /\ arg = <<"4">>
    /\ state[Main] = "raised"
    /\ self = NoObject

\* the places of the dots, and X, X.Y of a string X.Y.Z
Dots(s) == {i \in 1..Len(s) : s[i] = "."}
FirstDot(s) == CHOOSE i \in Dots(s) : \A j \in Dots(s) : i <= j
LastDot(s) == CHOOSE i \in Dots(s) : \A j \in Dots(s) : j <= i
IsXYZ(s) ==
    /\ Cardinality(Dots(s)) = 2
    /\ \A i \in 1..Len(s) : s[i] \in Digits \cup {"."}
    /\ 1 < FirstDot(s)
    /\ FirstDot(s) + 1 < LastDot(s)
    /\ LastDot(s) < Len(s)
MajorOf(s) == SubSeq(s, 1, FirstDot(s) - 1)
MinorOf(s) == SubSeq(s, 1, LastDot(s) - 1)
EndsWith(s, t) == Len(s) >= Len(t) /\ SubSeq(s, Len(s) - Len(t) + 1, Len(s)) = t

\* C13 as claimed: for a version X.Y.Z of decimal numbers, of several digits too
\* (4.10.3), the object has major X, major.minor X.Y, the file name
\* rhcos-X.Y.Z-x86_64-aws.x86_64.vmdk, and a download URL that ends with
\* /X.Y/X.Y.Z/rhcos-X.Y.Z-x86_64-aws.x86_64.vmdk.gz.
C13_Claimed ==
    (Ended(Main) /\ IsXYZ(arg)) =>
        /\ state[Main] = "returned"
        /\ self.version_x = MajorOf(arg)
        /\ self.version_y = MinorOf(arg)
        /\ self.filename = <<"rhcos-">> \o arg \o <<"-x86_64-aws.x86_64.vmdk">>
        /\ EndsWith(self.download_url,
                    <<"/">> \o MinorOf(arg) \o <<"/">> \o arg \o
                    <<"/", "rhcos-">> \o arg \o <<"-x86_64-aws.x86_64.vmdk.gz">>)

\* create has been left by an exception
Aborted(p) == command[p] = "running" /\ state[p] = "raised"

\* what the stages of a process act on and what create keeps
Progress(p) ==
    <<download_path, unpack_path, bucket, images, Len(tasks),
      {t \in snapshots : t.rhcos_version # None},
      state[p], ret[p], todo[p], trace[p], entry[p], version[p],
      pending[p], ocp_versions[p], image_ids[p], command[p]>>

\* C14: when create_ami raises for one release (an error of any stage, the
\* import timeout), or the lookup of the releases raises, create is left with
\* that error: from then on no release is processed, no stage acts, nothing is
\* appended to image_ids and nothing is printed; the image ids are printed only
\* after every release found has returned an image id.
C14_AbortsBatch ==
    /\ [][Aborted(Main) => (Progress(Main)' = Progress(Main))]_vars
    /\ [](command[Main] = "printed" =>
             /\ state[Main] = "idle"
             /\ pending[Main] = <<>>
             /\ ocp_versions[Main] = <<>>)

C14_Witness ==
    /\ Aborted(Main)
    /\ ret[Main] = "RuntimeError"
    /\ version[Main] = "4.8.3"
    /\ pending[Main] = <<"4.8.2">>
    /\ ocp_versions[Main] = <<"4.10">>

\* C15 as claimed: a status query that finds the import task failed for good
\* (status deleted) ends the poll loop with an error at that query; the loop does
\* not go on polling until the deadline.
C15_Claimed ==
    [][(/\ At(Main, "import_poll")
        /\ tasks[import_task_id[Main]].status = "deleted"
        /\ trace'[Main] # trace[Main])
          => state'[Main] = "raised"]_vars

\* C16 as claimed: whenever import_snapshot has submitted the import task for
\* the key self.filename, an object is stored under exactly that key.
C16_Claimed ==
    Lastly(trace[Main], "import_snapshot") => ObjectAt(version[Main]) # "absent"

TaggedSnapshots(ss) == {t \in ss : t.rhcos_version # None}

\* C17: a call that ends by the import timeout has neither cancelled its import
\* task nor tagged anything; a call that polls or tags has started its import
\* task itself and works on that task, the latest one, never on the task of an
\* earlier call; and a snapshot produced by any task but the latest carries no
\* tag and is not what the pipeline returns.
C17_AbandonedJob ==
    /\ TimedOutCall(Main) =>
          /\ Lastly(trace[Main], "describe_import_snapshot_tasks")
          /\ \A i \in 1..Len(trace[Main]) :
                trace[Main][i] \notin {"create_tags", "cancel_import_task"}
          /\ TaggedSnapshots(snapshots) = TaggedSnapshots(pre[Main].snapshots)
          /\ import_task_id[Main] \in DOMAIN tasks
          /\ tasks[import_task_id[Main]].status \in {"active", "completed", "deleted"}
    /\ (At(Main, "import_poll") \/ At(Main, "import_tag")) =>
          /\ Has(trace[Main], "import_snapshot")
          /\ import_task_id[Main] = Len(tasks)
    /\ At(Main, "import_tag") => snapshot_id[Main] = tasks[Len(tasks)].snapshot
    /\ \A t \in snapshots :
          (t.task # 0 /\ t.task # Len(tasks)) =>
              /\ t.rhcos_version = None
              /\ state[Main] = "returned" => ret[Main] # t.id

C17_Witness ==
    /\ last[Main].state = "raised"
    /\ last[Main].ret = "RuntimeError"
    /\ entry[Main] = "import_snapshot"
    /\ state[Main] = "returned"
    /\ Len(tasks) = 2
    /\ tasks[1].status = "completed"
    /\ ret[Main] = tasks[2].snapshot
    /\ \E t \in snapshots : t.task = 1 /\ t.rhcos_version = None

Queries(p) == Count(trace[p], "describe_import_snapshot_tasks")

\* C18: a status query that finds the task completed goes on to tag and return
\* the snapshot whatever the time is, after the deadline too; the timeout error
\* is raised only by a query that found the task not completed; and the first
\* query is made at the time the task was started, before any sleep, so the
\* loop is never left without a query.
C18_CompletionWins ==
    /\ [][(At(Main, "import_poll") /\ trace'[Main] # trace[Main]) =>
            LET task == tasks[import_task_id[Main]]
            IN  /\ task.status = "completed" =>
                      /\ state'[Main] = "running"
                      /\ Head(todo'[Main]) = "import_tag"
                      /\ snapshot_id'[Main] = task.snapshot
                /\ state'[Main] = "raised" =>
                      /\ task.status # "completed"
                      /\ ret'[Main] = "RuntimeError"
                      /\ clock'[Main] > timeout[Main]]_vars
    /\ []((At(Main, "import_poll") /\ Queries(Main) = 0) =>
             clock[Main] = timeout[Main] - 60 * max_time)
    /\ []((At(Main, "import_tag") \/ TimedOutCall(Main)) => Queries(Main) >= 1)

C18_Witness ==
    /\ At(Main, "import_tag")
    /\ clock[Main] > timeout[Main]
    /\ snapshot_id[Main] = tasks[import_task_id[Main]].snapshot

\* C19: over create_ami runs of one release made one after the other, runs that
\* abort at some stage or by the import timeout and are run again included,
\* there is never more than one image named rhcos-V nor more than one snapshot
\* tagged rhcos_version = V.
C19_Unique ==
    \A v \in Versions :
        /\ Cardinality(existing_image(v)) <= 1
        /\ Cardinality(existing_snapshot(v)) <= 1

C19_Witness ==
    /\ last[Main].state = "raised"
    /\ last[Main].ret = "RuntimeError"
    /\ state[Main] = "returned"
    /\ Len(tasks) = 2
    /\ tasks[1].status = "completed"
    /\ tasks[2].status = "completed"
    /\ Cardinality(existing_snapshot(version[Main])) = 1
    /\ existing_image(version[Main]) = {ret[Main]}

\* both processes are in a create_ami run of the same release
Overlap ==
    \A p \in Procs :
        /\ entry[p] = "create_ami"
        /\ version[p] = version[Main]
        /\ state[p] # "idle"

\* C20: create_ami takes no lock: whatever the other process has checked or
\* written, a process that has passed its lookup is free to take its next step,
\* to start an import task and to register; so two runs for the same release
\* that overlap can both find no snapshot and both import and tag one.
C20_NoLock ==
    \A p \in Procs :
        (state[p] = "running" /\ Head(todo[p]) # "import_poll") => ENABLED Stages(p)

C20_Witness ==
    /\ Overlap
    /\ \A p \in Procs :
          /\ Ended(p)
          /\ Has(trace[p], "import_snapshot")
          /\ Has(trace[p], "create_tags")
    /\ Len(tasks) = 2
    /\ Cardinality(existing_snapshot(version[Main])) = 2
    /\ pre["p1"].snapshots = {}
    /\ pre["p2"].snapshots = {}
====
